---- MODULE Spec2Model ----
(***************************************************************************)
(* IntelliLoad Analytics dashboard (src/app_intelliload.py).               *)
(*                                                                         *)
(* One run of the Streamlit script main() is modelled as a sequence of     *)
(* steps: the cached loader, the three sidebar filters, the threshold      *)
(* slider and the five tabs.  A run ends "done", "stopped" (st.stop) or    *)
(* "failed" (an uncaught Python exception ends the script run); a user     *)
(* interaction then reruns the script from the top.                        *)
(*                                                                         *)
(* Values of the dataframe library are modelled by what the code computes: *)
(* numbers are exact rationals plus the float specials nan, inf and -inf   *)
(* (nan is the dataframe null), category cells are strings with a null     *)
(* marker, and a date cell is a text before coercion and a timestamp or    *)
(* NaT after it.                                                           *)
(***************************************************************************)
EXTENDS Integers, Sequences, FiniteSets, TLC

(***************************************************************************)
(* Bounds of the model                                                     *)
(***************************************************************************)
\* largest number of rows of a primary table in the families that vary rows
MaxRows == 2
\* largest number of columns missing from the primary table
MaxMissing == 1

(***************************************************************************)
(* Numbers: rationals n/d (d > 0) and the float specials                   *)
(***************************************************************************)
Fin(n, d) == [k |-> "fin", n |-> n, d |-> d]
Int2Num(n) == Fin(n, 1)
NaN == [k |-> "nan", n |-> 0, d |-> 1]
PosInf == [k |-> "inf", n |-> 1, d |-> 1]
NegInf == [k |-> "inf", n |-> -1, d |-> 1]

IsNaN(x) == x.k = "nan"
IsInf(x) == x.k = "inf"
IsFin(x) == x.k = "fin"

Abs(i) == IF i < 0 THEN -i ELSE i

RECURSIVE Gcd(_, _)
Gcd(a, b) == IF b = 0 THEN a ELSE Gcd(b, a % b)

\* the rational n/d in lowest terms, d > 0
Norm(n, d) ==
    LET g == Gcd(Abs(n), Abs(d))
        s == IF d < 0 THEN -1 ELSE 1
    IN  Fin((s * n) \div g, (s * d) \div g)

\* float addition (inf + -inf = nan)
NumAdd(x, y) ==
    IF IsNaN(x) \/ IsNaN(y) THEN NaN
    ELSE IF IsInf(x) /\ IsInf(y) THEN (IF x.n = y.n THEN x ELSE NaN)
    ELSE IF IsInf(x) THEN x
    ELSE IF IsInf(y) THEN y
    ELSE Norm(x.n * y.d + y.n * x.d, x.d * y.d)

NumMul(x, y) ==
    IF IsNaN(x) \/ IsNaN(y) THEN NaN
    ELSE IF IsInf(x) \/ IsInf(y) THEN
        (IF x.n = 0 \/ y.n = 0 THEN NaN
         ELSE IF (x.n > 0) = (y.n > 0) THEN PosInf ELSE NegInf)
    ELSE Norm(x.n * y.n, x.d * y.d)

\* x < y on floats: every comparison with nan is false
NumLt(x, y) ==
    IF IsNaN(x) \/ IsNaN(y) THEN FALSE
    ELSE IF IsInf(x) THEN x.n < 0 /\ ~(IsInf(y) /\ y.n < 0)
    ELSE IF IsInf(y) THEN y.n > 0
    ELSE x.n * y.d < y.n * x.d

NumLe(x, y) == ~IsNaN(x) /\ ~IsNaN(y) /\ ~NumLt(y, x)

\* numpy / pandas true division of floats: a zero divisor gives nan or
\* +-inf (with a RuntimeWarning at most), never an exception
NpDiv(x, y) ==
    IF IsNaN(x) \/ IsNaN(y) THEN NaN
    ELSE IF IsInf(x) THEN
        (IF IsInf(y) THEN NaN
         ELSE IF y.n >= 0 THEN x ELSE [x EXCEPT !.n = -x.n])
    ELSE IF IsInf(y) THEN Int2Num(0)
    ELSE IF y.n = 0 THEN
        (IF x.n = 0 THEN NaN ELSE IF x.n > 0 THEN PosInf ELSE NegInf)
    ELSE Norm(x.n * y.d, x.d * y.n)

\* Python's own int / int: ZeroDivisionError for a zero divisor
PyDivRaises(a, b) == b = 0
PyDiv(a, b) == Norm(a, b)

(***************************************************************************)
(* Cells, rows and tables                                                  *)
(***************************************************************************)
\* the null of a string (object) column
NA == "<NA>"

\* a date cell: the text of the CSV, or after coercion a timestamp or NaT
DateText(v) == [k |-> "text", v |-> v]
Timestamp(v) == [k |-> "ts", v |-> v]
NaT == [k |-> "NaT", v |-> 0]

\* texts 1.. are well-formed dates (day numbers); text 0 is not a date
UnparseableText == DateText(0)

\* the columns of the primary table that the modelled code reads
AllCols ==
    {"order_id", "vehicle_id", "order_date", "vehicle_type",
     "customer_segment", "load_utilization_ratio", "total_cost_inr",
     "fuel_cost", "distance_km", "total_emissions_kg", "delivery_status",
     "delivery_delay_days"}

\* a table: its set of columns, the index label of each row and the rows,
\* each row a function from the columns to cells
Table(cols, idx, rows) == [columns |-> cols, index |-> idx, rows |-> rows]
NoTable == Table({}, <<>>, <<>>)

Len0(t) == Len(t.rows)

Restrict(f, S) == [c \in S |-> f[c]]

RECURSIVE SeqSum(_)
SeqSum(s) == IF s = <<>> THEN Int2Num(0) ELSE NumAdd(Head(s), SeqSum(Tail(s)))

\* the cells of a column, in row order
Column(t, c) == [i \in 1..Len(t.rows) |-> t.rows[i][c]]

\* the non-null cells of a numeric column (skipna)
NotNull(s) == SelectSeq(s, LAMBDA x : ~IsNaN(x))

\* Series.sum(): nulls skipped, 0 for no values
ColSum(t, c) == SeqSum(NotNull(Column(t, c)))

\* Series.mean(): nulls skipped, nan for no values
SeqMean(s) ==
    LET v == NotNull(s)
    IN  IF Len(v) = 0 THEN NaN ELSE NpDiv(SeqSum(v), Int2Num(Len(v)))

ColMean(t, c) == SeqMean(Column(t, c))

\* the positions at which a boolean mask is true, from position i on
RECURSIVE KeepIdx(_, _)
KeepIdx(mask, i) ==
    IF i > Len(mask) THEN <<>>
    ELSE (IF mask[i] THEN <<i>> ELSE <<>>) \o KeepIdx(mask, i + 1)

\* df[mask]: the rows whose mask is true, in their order, with their labels
BoolIndex(t, mask) ==
    LET ks == KeepIdx(mask, 1)
    IN  Table(t.columns,
              [j \in 1..Len(ks) |-> t.index[ks[j]]],
              [j \in 1..Len(ks) |-> t.rows[ks[j]]])

\* Series.dropna().unique(): the distinct non-null values of a string column
UniqueNotNull(t, c) == {t.rows[i][c] : i \in 1..Len(t.rows)} \ {NA}

(***************************************************************************)
(* Input files                                                             *)
(***************************************************************************)
FileStates == {"absent", "malformed", "ok"}

\* data_files, in the order the loader's dictionary is iterated
AuxNames ==
    <<"orders", "delivery", "routes", "fleet", "warehouses", "feedback",
      "costs">>
AuxNameSet == {AuxNames[i] : i \in 1..Len(AuxNames)}

\* the auxiliary tables that load_data returns ('costs' is read, not returned)
ReturnedAux ==
    {"orders", "delivery", "routes", "fleet", "warehouses", "feedback"}

\* an auxiliary table is opaque: the file as read, or pd.DataFrame()
AuxRead == "read"
AuxEmpty == "empty"
AuxNone == "none"

(***************************************************************************)
(* The primary tables of the model                                         *)
(***************************************************************************)
OrderIds == <<"O1", "O2", "O3", "O4">>
StatusOf(i) == IF i % 2 = 1 THEN "On-Time" ELSE "Slightly-Delayed"

\* row i of a primary CSV as pd.read_csv returns it
MkRow(i, date, vtype, seg, veh, util, cost, dist) ==
    [c \in AllCols |->
        CASE c = "order_id" -> OrderIds[i]
          [] c = "vehicle_id" -> veh
          [] c = "order_date" -> date
          [] c = "vehicle_type" -> vtype
          [] c = "customer_segment" -> seg
          [] c = "load_utilization_ratio" -> Int2Num(util)
          [] c = "total_cost_inr" -> Int2Num(cost)
          [] c = "fuel_cost" -> Int2Num(cost \div 2)
          [] c = "distance_km" -> Int2Num(dist)
          [] c = "total_emissions_kg" -> Int2Num(cost \div 10)
          [] c = "delivery_status" -> StatusOf(i)
          [] c = "delivery_delay_days" -> Int2Num(i - 1)]

PlainRow(i) == MkRow(i, DateText(i), "Truck", "SME", "V1", 60, 100, 10)

\* rows that differ in the columns the sidebar filters read
FilterChoices ==
    [date : {DateText(1), DateText(2), UnparseableText},
     vtype : {"Truck"},
     seg : {"SME"}]
    \cup
    [date : {DateText(1)},
     vtype : {"Truck", "Van", NA},
     seg : {"SME", "Enterprise"}]
FilterRow(i, ch) == MkRow(i, ch.date, ch.vtype, ch.seg, "V1", 60, 100, 10)

\* rows that differ in the numeric columns the ratios read
NumChoices == [util : {0, 40, 80}, cost : {0, 100}, dist : {0, 10}]
NumRow(i, ch) ==
    MkRow(i, DateText(1), "Truck", "SME", "V1", ch.util, ch.cost, ch.dist)

TableOf(cols, rows) ==
    Table(cols, [i \in 1..Len(rows) |-> i - 1],
          [i \in 1..Len(rows) |-> Restrict(rows[i], cols)])

PlainTable == TableOf(AllCols, <<PlainRow(1)>>)

FilterTables ==
    {TableOf(AllCols, [i \in DOMAIN f |-> FilterRow(i, f[i])]) :
        f \in UNION {[1..n -> FilterChoices] : n \in 0..MaxRows}}

NumTables ==
    {TableOf(AllCols, [i \in DOMAIN f |-> NumRow(i, f[i])]) :
        f \in UNION {[1..n -> NumChoices] : n \in 0..MaxRows}}

\* rows that differ in the columns the per-vehicle rollup reads: the vehicle
\* and order identifiers (either may be null) and the utilization (null, the
\* values at and next to the ends of the status band, and 100.008)
RollupChoices ==
    [veh : {"V1"}, oid : BOOLEAN, util : {Int2Num(60)}]
    \cup
    [veh : {NA}, oid : {TRUE}, util : {Int2Num(60)}]
    \cup
    [veh : {"V1"}, oid : {TRUE},
     util : {Fin(499, 10), Int2Num(50), Int2Num(100), Fin(12501, 125),
             Fin(1001, 10)}]
    \cup
    [veh : {"V2"}, oid : {TRUE}, util : {NaN, Int2Num(100)}]
RollupRow(i, ch) ==
    [MkRow(i, DateText(1), "Truck", "SME", ch.veh, 0, 0, 10) EXCEPT
        !["order_id"] = IF ch.oid THEN @ ELSE NA,
        !["load_utilization_ratio"] = ch.util]

\* tables without the two selector columns
RollupCols == AllCols \ {"vehicle_type", "customer_segment"}
RollupTables ==
    {TableOf(RollupCols, [i \in DOMAIN f |-> RollupRow(i, f[i])]) :
        f \in UNION {[1..n -> RollupChoices] : n \in 0..MaxRows}}

\* tables that lack up to MaxMissing of the columns
ColTables ==
    {TableOf(AllCols \ S, <<PlainRow(1), PlainRow(2)>>) :
        S \in {M \in SUBSET AllCols : Cardinality(M) <= MaxMissing}}

(***************************************************************************)
(* load_data                                                               *)
(***************************************************************************)
Notice(level, about) == [level |-> level, about |-> about]

\* return None, None, None, None, None, None, None
AllNone ==
    [none |-> TRUE, optimized_df |-> NoTable,
     aux |-> [a \in ReturnedAux |-> AuxNone]]

\* a loader that treats a missing auxiliary file as a failure
MissingAux_AsError(name) ==
    [table |-> AuxNone, notice |-> Notice("error", name)]

\* the else branch of the loop: st.warning and an empty table for the name
MissingAux(name) ==
    [table |-> AuxEmpty, notice |-> Notice("warning", name)]

\* the loop over data_files from entry i on: the datasets read so far, the
\* notices emitted, and whether pd.read_csv raised
RECURSIVE AuxLoop(_, _, _, _)
AuxLoop(aux, i, datasets, notes) ==
    IF i > Len(AuxNames) THEN
        [raised |-> FALSE, datasets |-> datasets, notices |-> notes]
    ELSE LET name == AuxNames[i]
         IN  IF aux[name] = "ok" THEN
                 AuxLoop(aux, i + 1, [datasets EXCEPT ![name] = AuxRead], notes)
             ELSE IF aux[name] = "absent" THEN
                 AuxLoop(aux, i + 1,
                         [datasets EXCEPT ![name] = MissingAux(name).table],
                         Append(notes, MissingAux(name).notice))
             ELSE
                 [raised |-> TRUE, datasets |-> datasets, notices |-> notes]

\* the primary file is absent (the else of os.path.exists) or pd.read_csv
\* raises on it (the except clause): an error notice and all None
PrimaryFailure(primary) ==
    [result |-> AllNone,
     notices |->
        IF primary.state = "absent"
        THEN <<Notice("error", "optimized_assignment.csv not found")>>
        ELSE <<Notice("error", "Error loading data")>>]

\* the rest of the try block once the primary table is read: a read that
\* raises on an auxiliary file lands in the same except clause
LoadAux(primary, aux) ==
    LET loop == AuxLoop(aux, 1, [a \in AuxNameSet |-> AuxNone], <<>>)
    IN  IF loop.raised THEN
            [result |-> AllNone,
             notices |->
                Append(loop.notices, Notice("error", "Error loading data"))]
        ELSE
            [result |->
                [none |-> FALSE, optimized_df |-> primary.table,
                 aux |-> Restrict(loop.datasets, ReturnedAux)],
             notices |-> loop.notices]

\* a loader without the check of the primary file
load_data_NoPrimaryCheck(primary, aux) == LoadAux(primary, aux)

\* the body of load_data: its return value and the notices it emits
load_data(primary, aux) ==
    IF primary.state # "ok" THEN PrimaryFailure(primary)
    ELSE LoadAux(primary, aux)

(***************************************************************************)
(* State                                                                   *)
(***************************************************************************)
VARIABLES
    primary_file,     \* optimized_assignment.csv: its state and its table
    aux_files,        \* the state of each file of data_files
    cache,            \* the memo of st.cache_data for load_data
    pc,               \* the position of the script run
    loaded_none,      \* optimized_df is None (after the load)
    optimized_df,     \* the local variable optimized_df of main
    aux_dfs,          \* orders_df .. feedback_df
    notices,          \* errors, warnings and placeholders shown in this run
    date_range,       \* the value of the date picker
    selected_vehicle, \* the value of the vehicle type selector
    selected_segment, \* the value of the customer segment selector
    util_threshold,   \* the value of the slider
    vehicle_summary,  \* the per-vehicle rollup of tab 2
    metrics,          \* the metrics displayed in this run, by label
    rendered,         \* the charts and tables displayed in this run
    error,            \* the exception that ended the run, if any
    last_run          \* history: what the previous run chose and showed

vars ==
    <<primary_file, aux_files, cache, pc, loaded_none, optimized_df, aux_dfs,
      notices, date_range, selected_vehicle, selected_segment, util_threshold,
      vehicle_summary, metrics, rendered, error, last_run>>

files == <<primary_file, aux_files>>

Unset == "(unset)"
NoError == [exc |-> "", at |-> ""]
Raised(exc, at) == [exc |-> exc, at |-> at]
NoRange == [set |-> FALSE, start |-> 0, end |-> 0]
NoMetrics == [l \in {} |-> NaN]
NoRun == [set |-> FALSE]
EmptyCache == [filled |-> FALSE, result |-> AllNone, notices |-> <<>>]

\* the state of a script run before its first statement
RunStart ==
    /\ pc = "load"
    /\ loaded_none = TRUE
    /\ optimized_df = NoTable
    /\ aux_dfs = AllNone.aux
    /\ notices = <<>>
    /\ date_range = NoRange
    /\ selected_vehicle = Unset
    /\ selected_segment = Unset
    /\ util_threshold = -1
    /\ vehicle_summary = <<>>
    /\ metrics = NoMetrics
    /\ rendered = {}
    /\ error = NoError

AllOk == [a \in AuxNameSet |-> "ok"]

\* every state of the files, with one plain primary table
InitFiles ==
    /\ \E st \in FileStates :
         primary_file =
            [state |-> st, table |-> IF st = "ok" THEN PlainTable ELSE NoTable]
    /\ aux_files \in [AuxNameSet -> FileStates]

\* readable files, with the primary tables of the model
InitTables ==
    /\ \E t \in FilterTables \cup NumTables \cup RollupTables \cup ColTables :
         primary_file = [state |-> "ok", table |-> t]
    /\ aux_files = AllOk

Init ==
    /\ InitFiles \/ InitTables
    /\ cache = EmptyCache
    /\ RunStart
    /\ last_run = NoRun

(***************************************************************************)
(* main: the load and the sidebar                                          *)
(***************************************************************************)
Fail(exc, at) ==
    /\ pc' = "failed"
    /\ error' = Raised(exc, at)

\* the call load_data() of main under @st.cache_data: the body runs on a
\* miss, a hit returns the stored value and replays the stored notices
LoadData ==
    /\ pc = "load"
    /\ LET call == IF cache.filled
                   THEN [result |-> cache.result, notices |-> cache.notices]
                   ELSE load_data(primary_file, aux_files)
       IN  /\ cache' = [filled |-> TRUE, result |-> call.result,
                        notices |-> call.notices]
           /\ notices' = notices \o call.notices
           /\ loaded_none' = call.result.none
           /\ optimized_df' = call.result.optimized_df
           /\ aux_dfs' = call.result.aux
    /\ pc' = "check"
    /\ UNCHANGED <<files, last_run, date_range, selected_vehicle, selected_segment,
                   util_threshold, vehicle_summary, metrics, rendered, error>>

\* if optimized_df is None: st.stop()
Stop ==
    /\ pc = "check"
    /\ loaded_none
    /\ pc' = "stopped"
    /\ UNCHANGED <<files, last_run, cache, loaded_none, optimized_df, aux_dfs, notices,
                   date_range, selected_vehicle, selected_segment,
                   util_threshold, vehicle_summary, metrics, rendered, error>>

\* pd.to_datetime(cell, errors='coerce')
to_datetime(cell) ==
    IF cell.k = "text"
    THEN (IF cell.v = 0 THEN NaT ELSE Timestamp(cell.v))
    ELSE cell

SetMin(S) == CHOOSE x \in S : \A y \in S : x <= y
SetMax(S) == CHOOSE x \in S : \A y \in S : y <= x

\* the sidebar summary and the date picker.  The column is coerced in place;
\* the picker's value is stored and no statement of main reads it again.
\* With no parseable date min() and max() are NaT, and what the picker does
\* with NaT depends on the library version: it raises or it returns.
DateInput ==
    /\ pc = "check"
    /\ ~loaded_none
    /\ rendered' = rendered \cup {"sidebar:Data loaded"}
    /\ IF "order_date" \in optimized_df.columns THEN
           LET coerced ==
                 [optimized_df EXCEPT !.rows =
                    [i \in 1..Len(optimized_df.rows) |->
                       [optimized_df.rows[i] EXCEPT
                          !["order_date"] = to_datetime(@)]]]
               days == {coerced.rows[i]["order_date"].v :
                          i \in {j \in 1..Len(coerced.rows) :
                                   coerced.rows[j]["order_date"].k = "ts"}}
           IN  /\ optimized_df' = coerced
               /\ IF days = {} THEN
                      \/ /\ Fail("DateInputError", "sidebar")
                         /\ UNCHANGED date_range
                      \/ /\ pc' = "vehicle"
                         /\ UNCHANGED <<date_range, error>>
                  ELSE
                      /\ \E s, e \in SetMin(days)..SetMax(days) :
                            /\ s <= e
                            /\ date_range' =
                                 [set |-> TRUE, start |-> s, end |-> e]
                      /\ pc' = "vehicle"
                      /\ UNCHANGED error
       ELSE
           /\ pc' = "vehicle"
           /\ UNCHANGED <<optimized_df, date_range, error>>
    /\ UNCHANGED <<files, last_run, cache, loaded_none, aux_dfs, notices,
                   selected_vehicle, selected_segment, util_threshold,
                   vehicle_summary, metrics>>

\* a filter that lets rows with a null cell through
EqFilter_KeepsNull(t, col, value) ==
    BoolIndex(t, [i \in 1..Len(t.rows) |->
                    t.rows[i][col] = value \/ t.rows[i][col] = NA])

\* df[df[col] == value]: a null cell equals no value
EqFilter(t, col, value) ==
    BoolIndex(t, [i \in 1..Len(t.rows) |-> t.rows[i][col] = value])

\* the options of every selector taken from the table as it was loaded
Options_OfLoadedTable(t, col) ==
    {"All"} \cup UniqueNotNull(cache.result.optimized_df, col)

\* the options of a selector: 'All' and the distinct non-null values
Options(t, col) == {"All"} \cup UniqueNotNull(t, col)

VehicleFilter ==
    /\ pc = "vehicle"
    /\ IF "vehicle_type" \in optimized_df.columns THEN
           \E v \in Options(optimized_df, "vehicle_type") :
              /\ selected_vehicle' = v
              /\ optimized_df' =
                   IF v # "All" THEN EqFilter(optimized_df, "vehicle_type", v)
                   ELSE optimized_df
       ELSE UNCHANGED <<selected_vehicle, optimized_df>>
    /\ pc' = "segment"
    /\ UNCHANGED <<files, last_run, cache, loaded_none, aux_dfs, notices, date_range,
                   selected_segment, util_threshold, vehicle_summary, metrics,
                   rendered, error>>

SegmentFilter ==
    /\ pc = "segment"
    /\ IF "customer_segment" \in optimized_df.columns THEN
           \E v \in Options(optimized_df, "customer_segment") :
              /\ selected_segment' = v
              /\ optimized_df' =
                   IF v # "All"
                   THEN EqFilter(optimized_df, "customer_segment", v)
                   ELSE optimized_df
       ELSE UNCHANGED <<selected_segment, optimized_df>>
    /\ pc' = "slider"
    /\ UNCHANGED <<files, last_run, cache, loaded_none, aux_dfs, notices, date_range,
                   selected_vehicle, util_threshold, vehicle_summary, metrics,
                   rendered, error>>

\* st.sidebar.slider(min_value=0, max_value=100, value=50)
SliderDefault == 50
SliderValues == {SliderDefault, 70}

Slider ==
    /\ pc = "slider"
    /\ util_threshold' \in SliderValues
    /\ pc' = "tab1"
    /\ UNCHANGED <<files, last_run, cache, loaded_none, optimized_df, aux_dfs, notices,
                   date_range, selected_vehicle, selected_segment,
                   vehicle_summary, metrics, rendered, error>>

(***************************************************************************)
(* main: the tabs                                                          *)
(***************************************************************************)
Has(t, c) == c \in t.columns
HasAll(t, S) == S \subseteq t.columns

\* df[c].sum() and df[c].mean(), asked only of a column that is present
Sum(t, c) == IF Has(t, c) THEN ColSum(t, c) ELSE NaN
Mean(t, c) == IF Has(t, c) THEN ColMean(t, c) ELSE NaN

\* A table without rows was read from a header-only CSV and its columns
\* have dtype object.  Whether the sum of such a column is a Python int (a
\* quotient of two sums is then Python's division and raises on 0) or a
\* numpy scalar (the quotient is nan) depends on the library version; the
\* sums of a table with rows are numpy scalars.
SumKinds(t) == IF Len0(t) = 0 THEN {"python", "numpy"} ELSE {"numpy"}

\* the statements of a tab in order.  A statement that is on either raises
\* exc or shows a metric (label, value) or a view (label).
Metric(on, label, value) ==
    [on |-> on, exc |-> "", kind |-> "metric", label |-> label,
     value |-> value]
View(on, label) ==
    [on |-> on, exc |-> "", kind |-> "view", label |-> label, value |-> NaN]
Raise(on, exc) ==
    [on |-> on, exc |-> exc, kind |-> "raise", label |-> "", value |-> NaN]
\* df[c] of a column that may be absent
Needs(t, c) == Raise(~Has(t, c), "KeyError")

RECURSIVE RunItems(_, _, _)
RunItems(items, i, acc) ==
    IF i > Len(items) THEN acc
    ELSE LET it == items[i]
         IN  IF ~it.on THEN RunItems(items, i + 1, acc)
             ELSE IF it.kind = "raise" THEN [acc EXCEPT !.exc = it.exc]
             ELSE IF it.kind = "metric" THEN
                 RunItems(items, i + 1,
                    [acc EXCEPT !.metrics = (it.label :> it.value) @@ @])
             ELSE RunItems(items, i + 1,
                    [acc EXCEPT !.rendered = @ \cup {it.label}])

\* run the statements of a tab: what was shown before an exception stays
RunTab(items, at, next) ==
    LET out == RunItems(items, 1,
                 [metrics |-> metrics, rendered |-> rendered, exc |-> ""])
    IN  /\ metrics' = out.metrics
        /\ rendered' = out.rendered
        /\ IF out.exc # "" THEN Fail(out.exc, at)
           ELSE pc' = next /\ UNCHANGED error

\* Series.nunique(): the number of distinct non-null values
NUnique(t, c) == IF Has(t, c) THEN Cardinality(UniqueNotNull(t, c)) ELSE 0

\* the fixed reference of the utilization delta
UtilReference == 50

\* df['order_id'].count(): the rows whose order identifier is not null
total_orders_CountsIds(t) ==
    IF Has(t, "order_id")
    THEN Int2Num(Len(SelectSeq(Column(t, "order_id"), LAMBDA x : x # NA)))
    ELSE Int2Num(Len0(t))

\* len(optimized_df)
total_orders(t) == Int2Num(Len0(t))

Tab1Items(t) ==
    <<Metric(TRUE, "Total Orders", total_orders(t)),
      Needs(t, "total_cost_inr"),
      Metric(TRUE, "Total Cost", Sum(t, "total_cost_inr")),
      Needs(t, "load_utilization_ratio"),
      Metric(TRUE, "Avg Utilization", Mean(t, "load_utilization_ratio")),
      Metric(TRUE, "Avg Utilization delta",
             NumAdd(Mean(t, "load_utilization_ratio"),
                    Int2Num(-UtilReference))),
      Needs(t, "total_emissions_kg"),
      Metric(TRUE, "Total CO2", Sum(t, "total_emissions_kg")),
      Needs(t, "vehicle_id"),
      Metric(TRUE, "Vehicles Used", Int2Num(NUnique(t, "vehicle_id"))),
      View(Has(t, "load_utilization_ratio"), "Utilization Distribution")>>

Tab1 ==
    /\ pc = "tab1"
    /\ RunTab(Tab1Items(optimized_df), "tab1", "tab2")
    /\ UNCHANGED <<files, last_run, cache, loaded_none, optimized_df, aux_dfs, notices,
                   date_range, selected_vehicle, selected_segment,
                   util_threshold, vehicle_summary>>

(***************************************************************************)
(* Tab 2: the per-vehicle rollup                                           *)
(***************************************************************************)
\* the vehicle identifiers of the model, in their sort order
VehicleIds == <<"V1", "V2", "V3">>

\* DataFrame.round(2) on one value: to the nearest hundredth, ties to even
Round2(x) ==
    IF ~IsFin(x) THEN x
    ELSE LET q == x.n * 100
             fl == q \div x.d
             rem == q % x.d
             up == \/ 2 * rem > x.d
                   \/ (2 * rem = x.d /\ fl % 2 = 1)
         IN  Norm(IF up THEN fl + 1 ELSE fl, 100)

RECURSIVE SeqMin(_)
SeqMin(s) ==
    IF Len(s) = 0 THEN NaN
    ELSE IF Len(s) = 1 THEN s[1]
    ELSE LET m == SeqMin(Tail(s)) IN IF NumLt(m, s[1]) THEN m ELSE s[1]

\* the aggregate 'first' in place of 'max'
SeqMax_First(s) == IF Len(s) = 0 THEN NaN ELSE s[1]

RECURSIVE SeqMax(_)
SeqMax(s) ==
    IF Len(s) = 0 THEN NaN
    ELSE IF Len(s) = 1 THEN s[1]
    ELSE LET m == SeqMax(Tail(s)) IN IF NumLt(s[1], m) THEN m ELSE s[1]

\* the columns that the aggregation of the rollup reads
AggCols ==
    {"order_id", "load_utilization_ratio", "distance_km", "total_cost_inr",
     "total_emissions_kg"}

\* def get_status(util)
StatusLow == 50
StatusHigh == 100
get_status(util) ==
    IF NumLt(util, Int2Num(StatusLow)) THEN "Underutilized"
    ELSE IF NumLt(Int2Num(StatusHigh), util) THEN "Overloaded"
    ELSE "Optimal"

\* one row of groupby('vehicle_id').agg({...}).round(2), with its Status
GroupSummary(t, v) ==
    LET g == SelectSeq(t.rows, LAMBDA r : r["vehicle_id"] = v)
        col(c) == NotNull([i \in 1..Len(g) |-> g[i][c]])
        util == col("load_utilization_ratio")
        avg == Round2(SeqMean(util))
    IN  [vehicle_id |-> v,
         Orders |-> Len(SelectSeq(g, LAMBDA r : r["order_id"] # NA)),
         Avg_Util |-> avg,
         Min_Util |-> Round2(SeqMin(util)),
         Max_Util |-> Round2(SeqMax(util)),
         Total_Distance |-> Round2(SeqSum(col("distance_km"))),
         Total_Cost |-> Round2(SeqSum(col("total_cost_inr"))),
         Total_Emissions |-> Round2(SeqSum(col("total_emissions_kg"))),
         Status |-> get_status(avg)]

\* sort_values('Avg_Util', ascending=False): descending, nulls last, equal
\* values in the order of the groups
RECURSIVE InsertDesc(_, _)
InsertDesc(sorted, row) ==
    IF sorted = <<>> THEN <<row>>
    ELSE IF \/ IsNaN(Head(sorted).Avg_Util) /\ ~IsNaN(row.Avg_Util)
            \/ NumLt(Head(sorted).Avg_Util, row.Avg_Util)
         THEN <<row>> \o sorted
         ELSE <<Head(sorted)>> \o InsertDesc(Tail(sorted), row)

RECURSIVE SortDesc(_, _)
SortDesc(rows, i) ==
    IF i = 0 THEN <<>> ELSE InsertDesc(SortDesc(rows, i - 1), rows[i])

\* vehicle_summary: one row for each non-null vehicle identifier
VehicleSummary(t) ==
    LET keys == SelectSeq(VehicleIds,
                          LAMBDA v : v \in UniqueNotNull(t, "vehicle_id"))
        rows == [i \in 1..Len(keys) |-> GroupSummary(t, keys[i])]
    IN  SortDesc(rows, Len(rows))

\* Series.sum() of a boolean Series: the number of true entries
CountTrue(mask) == Len(KeepIdx(mask, 1))

\* count / len(vehicle_summary) * 100 of a numpy count
Pct(count, total) ==
    NumMul(NpDiv(Int2Num(count), Int2Num(total)), Int2Num(100))

\* the bounds of the counts of Vehicle Stats: Optimal is [50, 90],
\* Overloaded is above 100
OptimalLow == 50
OptimalHigh == 90
OverloadedAbove == 100

\* the slider value used as the lower bound of Optimal as well
Tab2Items_ThresholdInOptimal(vs, threshold) ==
    LET under == CountTrue([i \in 1..Len(vs) |->
                        NumLt(vs[i].Avg_Util, Int2Num(threshold))])
        optimal == CountTrue([i \in 1..Len(vs) |->
                        /\ NumLe(Int2Num(threshold), vs[i].Avg_Util)
                        /\ NumLe(vs[i].Avg_Util, Int2Num(OptimalHigh))])
        over == CountTrue([i \in 1..Len(vs) |->
                        NumLt(Int2Num(OverloadedAbove), vs[i].Avg_Util)])
    IN  <<View(TRUE, "Vehicle Utilization Heatmap"),
          Metric(TRUE, "Underutilized", Int2Num(under)),
          Metric(TRUE, "Underutilized delta", Pct(under, Len(vs))),
          Metric(TRUE, "Optimal", Int2Num(optimal)),
          Metric(TRUE, "Optimal delta", Pct(optimal, Len(vs))),
          Metric(TRUE, "Overloaded", Int2Num(over)),
          Metric(TRUE, "Overloaded delta", Pct(over, Len(vs))),
          View(TRUE, "Detailed Vehicle Report"),
          View(TRUE, "Download Vehicle Report")>>

Tab2Items(vs, threshold) ==
    LET under == CountTrue([i \in 1..Len(vs) |->
                        NumLt(vs[i].Avg_Util, Int2Num(threshold))])
        optimal == CountTrue([i \in 1..Len(vs) |->
                        /\ NumLe(Int2Num(OptimalLow), vs[i].Avg_Util)
                        /\ NumLe(vs[i].Avg_Util, Int2Num(OptimalHigh))])
        over == CountTrue([i \in 1..Len(vs) |->
                        NumLt(Int2Num(OverloadedAbove), vs[i].Avg_Util)])
    IN  <<View(TRUE, "Vehicle Utilization Heatmap"),
          Metric(TRUE, "Underutilized", Int2Num(under)),
          Metric(TRUE, "Underutilized delta", Pct(under, Len(vs))),
          Metric(TRUE, "Optimal", Int2Num(optimal)),
          Metric(TRUE, "Optimal delta", Pct(optimal, Len(vs))),
          Metric(TRUE, "Overloaded", Int2Num(over)),
          Metric(TRUE, "Overloaded delta", Pct(over, Len(vs))),
          View(TRUE, "Detailed Vehicle Report"),
          View(TRUE, "Download Vehicle Report")>>

\* The aggregation of a table without rows (columns of dtype object) raises
\* in some versions of the dataframe library and returns no rows in others.
Tab2 ==
    /\ pc = "tab2"
    /\ IF ~Has(optimized_df, "vehicle_id") THEN
           /\ pc' = "tab3"
           /\ UNCHANGED <<vehicle_summary, metrics, rendered, error>>
       ELSE IF ~HasAll(optimized_df, AggCols) THEN
           /\ Fail("KeyError", "tab2")
           /\ UNCHANGED <<vehicle_summary, metrics, rendered>>
       ELSE
           \/ /\ Len0(optimized_df) = 0
              /\ Fail("DataError", "tab2")
              /\ UNCHANGED <<vehicle_summary, metrics, rendered>>
           \/ /\ vehicle_summary' = VehicleSummary(optimized_df)
              /\ RunTab(Tab2Items(vehicle_summary', util_threshold),
                        "tab2", "tab3")
    /\ UNCHANGED <<files, last_run, cache, loaded_none, optimized_df, aux_dfs, notices,
                   date_range, selected_vehicle, selected_segment,
                   util_threshold>>

(***************************************************************************)
(* Tab 3: cost analysis                                                    *)
(***************************************************************************)
RECURSIVE InsertAsc(_, _)
InsertAsc(sorted, x) ==
    IF sorted = <<>> THEN <<x>>
    ELSE IF NumLt(x, Head(sorted)) THEN <<x>> \o sorted
    ELSE <<Head(sorted)>> \o InsertAsc(Tail(sorted), x)

RECURSIVE SortAsc(_, _)
SortAsc(s, i) == IF i = 0 THEN <<>> ELSE InsertAsc(SortAsc(s, i - 1), s[i])

\* Series.median(): nulls skipped, nan for no values
Median(s) ==
    LET v == SortAsc(NotNull(s), Len(NotNull(s)))
        n == Len(v)
    IN  IF n = 0 THEN NaN
        ELSE IF n % 2 = 1 THEN v[(n + 1) \div 2]
        ELSE NpDiv(NumAdd(v[n \div 2], v[n \div 2 + 1]), Int2Num(2))

\* the utilization from which an order counts as efficient
EfficientUtil == 60

\* the rows with utilization >= 60 and fuel cost below the median fuel cost
Efficient(t) ==
    IF HasAll(t, {"load_utilization_ratio", "fuel_cost"}) THEN
        LET med == Median(Column(t, "fuel_cost"))
        IN  BoolIndex(t, [i \in 1..Len(t.rows) |->
               /\ NumLe(Int2Num(EfficientUtil),
                        t.rows[i]["load_utilization_ratio"])
               /\ NumLt(t.rows[i]["fuel_cost"], med)])
    ELSE NoTable

\* total_cost_inr / load_utilization_ratio of one row (elementwise float
\* division of two columns)
cost_per_util(r) == NpDiv(r["total_cost_inr"], r["load_utilization_ratio"])

\* a derived-ratio step that also overwrites the cost it divides
WithCostPerUtil_OverwritesCost(t) ==
    [columns |-> t.columns \cup {"cost_per_util"},
     index |-> t.index,
     rows |-> [i \in 1..Len(t.rows) |->
                 [c \in t.columns \cup {"cost_per_util"} |->
                    IF c \in {"cost_per_util", "total_cost_inr"}
                    THEN cost_per_util(t.rows[i])
                    ELSE t.rows[i][c]]]]

\* optimized_df['cost_per_util'] = ...: the table with the derived column
WithCostPerUtil(t) ==
    [columns |-> t.columns \cup {"cost_per_util"},
     index |-> t.index,
     rows |-> [i \in 1..Len(t.rows) |->
                 [c \in t.columns \cup {"cost_per_util"} |->
                    IF c = "cost_per_util" THEN cost_per_util(t.rows[i])
                    ELSE t.rows[i][c]]]]

DerivesCostPerUtil(t) == HasAll(t, {"load_utilization_ratio", "total_cost_inr"})

Tab3Items(t, sums) ==
    LET perKm == HasAll(t, {"distance_km", "fuel_cost"})
        eff == HasAll(t, {"load_utilization_ratio", "fuel_cost"})
        scatter == HasAll(t, {"distance_km", "total_cost_inr"})
    IN  <<Metric(Has(t, "fuel_cost"), "Total Fuel Cost", Sum(t, "fuel_cost")),
          Metric(Has(t, "fuel_cost"), "Avg Fuel Cost", Mean(t, "fuel_cost")),
          Metric(Has(t, "total_cost_inr"), "Total Operating Cost",
                 Sum(t, "total_cost_inr")),
          Metric(Has(t, "total_cost_inr"), "Avg Operating Cost",
                 Mean(t, "total_cost_inr")),
          Raise(perKm /\ sums = "python", "ZeroDivisionError"),
          Metric(perKm, "Cost per KM",
                 NpDiv(Sum(t, "fuel_cost"), Sum(t, "distance_km"))),
          Raise(scatter /\ ~Has(t, "load_utilization_ratio"), "ValueError"),
          View(scatter, "Cost vs Distance"),
          Raise(eff /\ PyDivRaises(Len0(Efficient(t)), Len0(t)),
                "ZeroDivisionError"),
          Metric(eff, "Efficient Orders", Int2Num(Len0(Efficient(t)))),
          Metric(eff, "Efficient Orders delta",
                 IF Len0(t) = 0 THEN NaN
                 ELSE NumMul(PyDiv(Len0(Efficient(t)), Len0(t)),
                             Int2Num(100))),
          Metric(DerivesCostPerUtil(t), "Avg Cost per Util%",
                 IF DerivesCostPerUtil(t)
                 THEN ColMean(WithCostPerUtil(t), "cost_per_util")
                 ELSE NaN)>>

\* the derived column is added to optimized_df when its statement is reached
Tab3 ==
    /\ pc = "tab3"
    /\ \E sums \in SumKinds(optimized_df) :
          RunTab(Tab3Items(optimized_df, sums), "tab3", "tab4")
    /\ optimized_df' =
         IF pc' = "tab4" /\ DerivesCostPerUtil(optimized_df)
         THEN WithCostPerUtil(optimized_df)
         ELSE optimized_df
    /\ UNCHANGED <<files, last_run, cache, loaded_none, aux_dfs, notices, date_range,
                   selected_vehicle, selected_segment, util_threshold,
                   vehicle_summary>>

(***************************************************************************)
(* Tab 4: sustainability                                                   *)
(***************************************************************************)
\* kg of CO2 one tree absorbs in a year
KgPerTree == 21

Tab4Items(t, sums) ==
    LET on == Has(t, "total_emissions_kg")
        perKm == on /\ Has(t, "distance_km")
    IN  <<Metric(on, "Total CO2 Emissions", Sum(t, "total_emissions_kg")),
          Metric(on, "Avg CO2 per Order", Mean(t, "total_emissions_kg")),
          Raise(perKm /\ sums = "python", "ZeroDivisionError"),
          Metric(perKm, "CO2 per KM",
                 NpDiv(Sum(t, "total_emissions_kg"), Sum(t, "distance_km"))),
          Metric(on, "Trees to Offset",
                 NpDiv(Sum(t, "total_emissions_kg"), Int2Num(KgPerTree))),
          View(on /\ Has(t, "vehicle_type"), "Emissions by Vehicle Type"),
          Raise(on /\ ~Has(t, "distance_km"), "ValueError"),
          View(on, "Distance vs Emissions")>>

Tab4 ==
    /\ pc = "tab4"
    /\ \E sums \in SumKinds(optimized_df) :
          RunTab(Tab4Items(optimized_df, sums), "tab4", "tab5")
    /\ UNCHANGED <<files, last_run, cache, loaded_none, optimized_df, aux_dfs, notices,
                   date_range, selected_vehicle, selected_segment,
                   util_threshold, vehicle_summary>>

(***************************************************************************)
(* Tab 5: performance metrics                                              *)
(***************************************************************************)
\* status_counts.get(status, 0)
StatusCount(t, status) ==
    IF Has(t, "delivery_status")
    THEN CountTrue([i \in 1..Len(t.rows) |->
                       t.rows[i]["delivery_status"] = status])
    ELSE 0

\* In the branch without delivery_status the two chart sections follow the
\* placeholders, and the first of them reads status_counts, which only the
\* other branch assigns.
Tab5Items(t) ==
    LET on == Has(t, "delivery_status")
        onTime == StatusCount(t, "On-Time")
    IN  <<Raise(on /\ PyDivRaises(onTime, Len0(t)), "ZeroDivisionError"),
          Metric(on, "On-Time Deliveries", Int2Num(onTime)),
          Metric(on, "On-Time Deliveries delta",
                 IF Len0(t) = 0 THEN NaN
                 ELSE NumMul(PyDiv(onTime, Len0(t)), Int2Num(100))),
          Metric(on, "Slightly Delayed",
                 Int2Num(StatusCount(t, "Slightly-Delayed"))),
          Metric(on, "Severely Delayed",
                 Int2Num(StatusCount(t, "Severely-Delayed"))),
          Raise(on /\ ~Has(t, "delivery_delay_days"), "KeyError"),
          Metric(on, "Avg Delay (days)", Mean(t, "delivery_delay_days")),
          View(~on, "Delivery status data not available"),
          View(~on, "Delivery Status Distribution"),
          Raise(~on, "UnboundLocalError"),
          View(TRUE, "Quality & Customer Satisfaction"),
          View(TRUE, "Traffic Impact Analysis")>>

Tab5 ==
    /\ pc = "tab5"
    /\ RunTab(Tab5Items(optimized_df), "tab5", "done")
    /\ UNCHANGED <<files, last_run, cache, loaded_none, optimized_df, aux_dfs, notices,
                   date_range, selected_vehicle, selected_segment,
                   util_threshold, vehicle_summary>>

(***************************************************************************)
(* Reruns and the specification                                            *)
(***************************************************************************)
Ended == pc \in {"done", "stopped", "failed"}

\* a user interaction reruns the script from its first statement; only the
\* memo of the loader outlives a run
RunReset ==
    /\ pc' = "load"
    /\ loaded_none' = TRUE
    /\ optimized_df' = NoTable
    /\ aux_dfs' = AllNone.aux
    /\ notices' = <<>>
    /\ date_range' = NoRange
    /\ selected_vehicle' = Unset
    /\ selected_segment' = Unset
    /\ util_threshold' = -1
    /\ vehicle_summary' = <<>>
    /\ metrics' = NoMetrics
    /\ rendered' = {}
    /\ error' = NoError

Rerun ==
    /\ Ended
    /\ RunReset
    /\ UNCHANGED <<files, cache, last_run>>

\* what the run that has ended chose and showed
ThisRun ==
    [set |-> TRUE, pc |-> pc, error |-> error, date_range |-> date_range,
     selected_vehicle |-> selected_vehicle,
     selected_segment |-> selected_segment,
     util_threshold |-> util_threshold, optimized_df |-> optimized_df,
     vehicle_summary |-> vehicle_summary, metrics |-> metrics,
     rendered |-> rendered]

\* a memo that hands out the stored table itself and not a copy of it: the
\* table main has worked on is the table the next run is given
RerunRecorded_SharedTable ==
    /\ Ended
    /\ RunReset
    /\ last_run' = ThisRun
    /\ cache' = IF cache.filled /\ ~loaded_none
                THEN [cache EXCEPT !.result.optimized_df = optimized_df]
                ELSE cache
    /\ UNCHANGED files

\* a rerun, with the run that has ended kept for comparison
RerunRecorded ==
    /\ Ended
    /\ RunReset
    /\ last_run' = ThisRun
    /\ UNCHANGED <<files, cache>>

Next ==
    \/ LoadData
    \/ Stop
    \/ DateInput
    \/ VehicleFilter
    \/ SegmentFilter
    \/ Slider
    \/ Tab1
    \/ Tab2
    \/ Tab3
    \/ Tab4
    \/ Tab5
    \/ Rerun

Spec == Init /\ [][Next]_vars

\* The runs of one session compared with each other: every rerun keeps what
\* the run before it showed.  The tables are those of the rollup and the
\* filter tables of at most one row.
RunTables == RollupTables \cup {t \in FilterTables : Len0(t) <= 1}

InitRuns ==
    /\ \/ \E t \in RunTables : primary_file = [state |-> "ok", table |-> t]
       \/ primary_file = [state |-> "absent", table |-> NoTable]
    /\ aux_files = AllOk
    /\ cache = EmptyCache
    /\ RunStart
    /\ last_run = NoRun

NextRuns ==
    \/ LoadData
    \/ Stop
    \/ DateInput
    \/ VehicleFilter
    \/ SegmentFilter
    \/ Slider
    \/ Tab1
    \/ Tab2
    \/ Tab3
    \/ Tab4
    \/ Tab5
    \/ RerunRecorded

SpecRuns == InitRuns /\ [][NextRuns]_vars

(***************************************************************************)
(* Properties                                                              *)
(***************************************************************************)
\* the primary table as load_data returned it (the memo keeps that value)
Loaded == cache.result.optimized_df

TabSteps == {"tab1", "tab2", "tab3", "tab4", "tab5"}

\* the filters have run: optimized_df is the table the tabs compute from
AfterFilters ==
    \/ pc \in {"slider", "done"} \cup TabSteps
    \/ pc = "failed" /\ error.at \in TabSteps

\* the vehicle type filter has run
AfterVehicleFilter == pc = "segment" \/ AfterFilters

IndexSet(t) == {t.index[i] : i \in 1..Len(t.index)}
PosIn(t, label) == CHOOSE i \in 1..Len(t.index) : t.index[i] = label
InOrder(t) ==
    \A j, k \in 1..Len(t.index) : j < k => t.index[j] < t.index[k]

NoSelection(v) == v \in {"All", Unset}

\* row r passes the two selectors as they stand
PassesSelectors(r) ==
    /\ NoSelection(selected_vehicle) \/ r["vehicle_type"] = selected_vehicle
    /\ NoSelection(selected_segment)
         \/ r["customer_segment"] = selected_segment

HasNotice(level) == \E i \in DOMAIN notices : notices[i].level = level

\* C1: if the primary file is absent or cannot be read, load_data returns
\* None for every table and shows an error, and main stops the run before
\* any filter, aggregate or view: no selector, metric, rollup or view exists
\* and the run is at the load, the check or st.stop().
C1_PrimaryFailureHalts ==
    primary_file.state # "ok" =>
        /\ pc \in {"load", "check", "stopped"}
        /\ pc # "load" =>
              /\ loaded_none
              /\ cache.result = AllNone
              /\ aux_dfs = AllNone.aux
              /\ HasNotice("error")
        /\ optimized_df = NoTable
        /\ date_range = NoRange
        /\ selected_vehicle = Unset
        /\ selected_segment = Unset
        /\ util_threshold = -1
        /\ vehicle_summary = <<>>
        /\ metrics = NoMetrics
        /\ rendered = {}

C1_Witness == pc = "stopped" /\ primary_file.state = "malformed"

NoAuxMalformed == \A a \in AuxNameSet : aux_files[a] # "malformed"

\* C2: with a readable primary file and every auxiliary file present or
\* absent, load_data returns the primary table as read, an empty table for
\* each absent auxiliary and the file's table for each present one, shows a
\* warning for exactly the absent ones and no error, and the run is not
\* stopped (with the plain table it does not fail either).
C2_AbsentAuxDegrades ==
    (primary_file.state = "ok" /\ NoAuxMalformed /\ pc # "load") =>
        /\ ~loaded_none
        /\ Loaded = primary_file.table
        /\ pc = "check" => optimized_df = primary_file.table
        /\ \A a \in ReturnedAux :
              aux_dfs[a] = IF aux_files[a] = "absent" THEN AuxEmpty ELSE AuxRead
        /\ \A a \in AuxNameSet :
              aux_files[a] = "absent" <=>
                 \E i \in DOMAIN notices : notices[i] = Notice("warning", a)
        /\ ~HasNotice("error")
        /\ pc # "stopped"
        /\ primary_file.table = PlainTable => pc # "failed"

C2_Witness ==
    /\ pc = "done"
    /\ aux_files["orders"] = "absent"
    /\ aux_files["costs"] = "absent"
    /\ aux_files["fleet"] = "ok"
    /\ Len0(optimized_df) > 0
    /\ "Total Orders" \in DOMAIN metrics

\* C3: if an auxiliary file exists and cannot be read, the primary table is
\* still loaded and the run is not stopped.
C3_MalformedAuxDegrades ==
    (/\ primary_file.state = "ok"
     /\ \E a \in AuxNameSet : aux_files[a] = "malformed"
     /\ pc # "load") =>
        /\ ~loaded_none
        /\ pc # "stopped"

\* the coerced date of a cell lies in the selected range
InDateRange(cell) ==
    /\ to_datetime(cell).k = "ts"
    /\ date_range.start <= to_datetime(cell).v
    /\ to_datetime(cell).v <= date_range.end

\* C4: with an order_date column and a selected range [start, end], the
\* table the tabs compute from holds exactly the loaded rows whose date lies
\* in [start, end] and that pass the two selectors; rows with an
\* unparseable date are excluded.
C4_DateRangeFilters ==
    (AfterFilters /\ Has(Loaded, "order_date") /\ date_range.set) =>
        IndexSet(optimized_df) =
            {Loaded.index[i] : i \in
                {j \in 1..Len(Loaded.rows) :
                    /\ InDateRange(Loaded.rows[j]["order_date"])
                    /\ PassesSelectors(Loaded.rows[j])}}

\* C5: after the selectors the table holds exactly the loaded rows r with
\* (v = "All" or r.vehicle_type = v) and (s = "All" or r.customer_segment =
\* s), in their order; "All" for both leaves every loaded row.
C5_SelectorsFilterExactly ==
    AfterVehicleFilter =>
        /\ IndexSet(optimized_df) =
              {Loaded.index[i] : i \in
                  {j \in 1..Len(Loaded.rows) :
                      PassesSelectors(Loaded.rows[j])}}
        /\ InOrder(optimized_df)
        /\ Len(optimized_df.rows) = Len(optimized_df.index)
        /\ (NoSelection(selected_vehicle) /\ NoSelection(selected_segment))
              => optimized_df.index = Loaded.index

C5_Witness ==
    /\ AfterFilters
    /\ selected_vehicle = "Truck"
    /\ selected_segment = "Enterprise"
    /\ Len0(optimized_df) > 0
    /\ Len0(optimized_df) < Len0(Loaded)

\* C6 as stated: the table handed to the tabs is a subset of the loaded rows
\* in their order with exactly the loaded columns and every retained value
\* as loaded; no step adds a column or alters a value.
C6_TableKeptAsLoaded ==
    AfterVehicleFilter =>
        /\ InOrder(optimized_df)
        /\ IndexSet(optimized_df) \subseteq IndexSet(Loaded)
        /\ optimized_df.columns = Loaded.columns
        /\ \A j \in 1..Len(optimized_df.rows) :
              optimized_df.rows[j] =
                 Loaded.rows[PosIn(Loaded, optimized_df.index[j])]

\* the derived-ratio statement of tab 3 has run
PastDerivedRatio ==
    \/ pc \in {"tab4", "tab5", "done"}
    \/ pc = "failed" /\ error.at \in {"tab4", "tab5"}

\* C6 amended: from the date coercion on, the table is a subset of the
\* loaded rows in their order; it keeps every loaded column and every
\* retained value except order_date, whose cells are the coerced dates (NaT
\* for an unparseable text); the only column ever added is cost_per_util,
\* present exactly once the derived-ratio statement has run on a table with
\* load_utilization_ratio and total_cost_inr.
C6_TableKeptButCoercedAndDerived ==
    (~loaded_none /\ pc \notin {"load", "check", "stopped"}) =>
        /\ InOrder(optimized_df)
        /\ IndexSet(optimized_df) \subseteq IndexSet(Loaded)
        /\ Loaded.columns \subseteq optimized_df.columns
        /\ optimized_df.columns \subseteq Loaded.columns \cup {"cost_per_util"}
        /\ "cost_per_util" \in optimized_df.columns <=>
              (PastDerivedRatio /\ DerivesCostPerUtil(Loaded))
        /\ \A j \in 1..Len(optimized_df.rows) :
              \A c \in Loaded.columns :
                 LET orig == Loaded.rows[PosIn(Loaded, optimized_df.index[j])][c]
                     now == optimized_df.rows[j][c]
                 IN  IF c = "order_date"
                     THEN now = IF orig.k = "text" /\ orig.v > 0
                                THEN Timestamp(orig.v) ELSE NaT
                     ELSE now = orig

C6_Witness ==
    /\ pc = "done"
    /\ "cost_per_util" \in optimized_df.columns
    /\ Len0(optimized_df) > 0
    /\ Len0(optimized_df) < Len0(Loaded)
    /\ \E j \in 1..Len(optimized_df.rows) :
          optimized_df.rows[j]["order_date"] = NaT

\* C7: with a filtered table of zero rows and every expected column, no
\* percentage or ratio ends the run with a division-by-zero fault.
C7_EmptyTableNoDivisionFault ==
    (/\ AfterFilters
     /\ Len0(optimized_df) = 0
     /\ AllCols \subseteq optimized_df.columns) =>
        error.exc # "ZeroDivisionError"

PerKmLabels == {"Cost per KM", "CO2 per KM"}

\* C8: for a filtered table whose summed distance_km is 0 the per-km
\* metrics do not raise and are not displayed with a quotient: no infinite
\* or not-a-number value reaches the metric display.  (Stated of the tables
\* with rows; the table without rows is the case of C7.)
C8_PerKmGuarded ==
    (/\ AfterFilters
     /\ Len0(optimized_df) > 0
     /\ Has(optimized_df, "distance_km")
     /\ ColSum(optimized_df, "distance_km") = Int2Num(0)) =>
        /\ error.exc # "ZeroDivisionError"
        /\ \A l \in PerKmLabels \cap DOMAIN metrics : IsFin(metrics[l])

IsZero(x) == IsFin(x) /\ x.n = 0

\* the mean of cost / utilization over the rows with a non-zero utilization
MeanOverDefined(t) ==
    LET rows == SelectSeq(t.rows,
                   LAMBDA r : ~IsZero(r["load_utilization_ratio"]))
    IN  SeqMean([i \in 1..Len(rows) |->
                    NpDiv(rows[i]["total_cost_inr"],
                          rows[i]["load_utilization_ratio"])])

\* C9: every row with load_utilization_ratio 0 has a null cost_per_util,
\* and 'Avg Cost per Util%' is the mean over the rows with a defined value.
C9_ZeroUtilIsNull ==
    Has(optimized_df, "cost_per_util") =>
        /\ \A j \in 1..Len(optimized_df.rows) :
              IsZero(optimized_df.rows[j]["load_utilization_ratio"]) =>
                 IsNaN(optimized_df.rows[j]["cost_per_util"])
        /\ metrics["Avg Cost per Util%"] = MeanOverDefined(optimized_df)

MissingColumnFaults == {"KeyError", "ValueError", "UnboundLocalError"}

\* C10: whatever columns the primary table lacks, the run does not fail on
\* a missing column: it reaches its end with the other views rendered.
C10_NoColumnRequired ==
    (~loaded_none /\ Loaded.columns # AllCols) =>
        /\ error.exc \notin MissingColumnFaults
        /\ pc = "failed" => Len0(Loaded) = 0

\* the first statement of the overview tab has run
PastTotalOrders ==
    \/ pc \in {"tab2", "tab3", "tab4", "tab5", "done"}
    \/ pc = "failed" /\ error.at \in TabSteps

\* the loaded rows that pass the two selectors
PassingRows ==
    {j \in 1..Len(Loaded.rows) : PassesSelectors(Loaded.rows[j])}

\* C11: in every run the 'Total Orders' KPI is exactly the number of rows of
\* the filtered table, i.e. of the loaded rows that pass the selectors, for
\* every loaded table and every selection, the zero-row table included.
C11_TotalOrdersIsRowCount ==
    PastTotalOrders =>
        /\ "Total Orders" \in DOMAIN metrics
        /\ metrics["Total Orders"] = Int2Num(Cardinality(PassingRows))
        /\ metrics["Total Orders"] = Int2Num(Len(optimized_df.index))

C11_Witness ==
    /\ PastTotalOrders
    /\ selected_vehicle = "Van"
    /\ Len0(Loaded) = 2
    /\ metrics["Total Orders"] = Int2Num(1)

\* the per-vehicle rollup of this run has been computed
RollupDone ==
    /\ \/ pc \in {"tab3", "tab4", "tab5", "done"}
       \/ pc = "failed" /\ error.at \in {"tab3", "tab4", "tab5"}
    /\ Has(optimized_df, "vehicle_id")

\* the positions of the filtered rows of vehicle v
RowsOf(v) ==
    {j \in 1..Len(optimized_df.rows) : optimized_df.rows[j]["vehicle_id"] = v}

\* C12: Orders of every rollup row is the number of filtered rows
\* with that vehicle identifier, rows with a missing order identifier
\* included, so the Orders of all rollup rows add up to the number of
\* filtered rows that have a vehicle identifier.
C12_OrdersCountsGroupRows ==
    RollupDone =>
        /\ \A i \in DOMAIN vehicle_summary :
              vehicle_summary[i].Orders =
                  Cardinality(RowsOf(vehicle_summary[i].vehicle_id))
        /\ Cardinality({<<i, k>> \in (DOMAIN vehicle_summary) \X (1..MaxRows) :
                            k <= vehicle_summary[i].Orders})
             = Cardinality({j \in 1..Len(optimized_df.rows) :
                              optimized_df.rows[j]["vehicle_id"] # NA})

\* the utilization values of the filtered rows of vehicle v, nulls dropped
UtilOf(v) ==
    LET g == SelectSeq(optimized_df.rows, LAMBDA r : r["vehicle_id"] = v)
    IN  NotNull([j \in 1..Len(g) |-> g[j]["load_utilization_ratio"]])

\* C13 as stated: every rollup row has Min_Util <= Avg_Util <= Max_Util,
\* whichever utilization values of the vehicle are missing.
C13_MinAvgMaxOrdered ==
    RollupDone =>
        \A i \in DOMAIN vehicle_summary :
            /\ NumLe(vehicle_summary[i].Min_Util, vehicle_summary[i].Avg_Util)
            /\ NumLe(vehicle_summary[i].Avg_Util, vehicle_summary[i].Max_Util)

\* C13: every rollup row of a vehicle that has at least one utilization value
\* has Min_Util <= Avg_Util <= Max_Util, whether the vehicle has one order or
\* some of its rows lack the value; for a vehicle none of whose rows has a
\* utilization value the three are null.
C13_MinAvgMaxOrderedWhenDefined ==
    RollupDone =>
        \A i \in DOMAIN vehicle_summary :
            LET row == vehicle_summary[i]
            IN  IF Len(UtilOf(row.vehicle_id)) > 0
                THEN /\ NumLe(row.Min_Util, row.Avg_Util)
                     /\ NumLe(row.Avg_Util, row.Max_Util)
                ELSE /\ IsNaN(row.Min_Util)
                     /\ IsNaN(row.Avg_Util)
                     /\ IsNaN(row.Max_Util)

C13_Witness ==
    /\ RollupDone
    /\ \E i \in DOMAIN vehicle_summary :
          /\ NumLt(vehicle_summary[i].Min_Util, vehicle_summary[i].Avg_Util)
          /\ NumLt(vehicle_summary[i].Avg_Util, vehicle_summary[i].Max_Util)

\* the status band of the specification applied to the number x
BandOf(x) ==
    IF x.n < StatusLow * x.d THEN "Underutilized"
    ELSE IF x.n > StatusHigh * x.d THEN "Overloaded"
    ELSE "Optimal"

\* the rollup rows of the vehicles that have a mean utilization
WithMean ==
    {i \in DOMAIN vehicle_summary :
        Len(UtilOf(vehicle_summary[i].vehicle_id)) > 0}

\* C14: the Status of a vehicle is the band of its mean utilization
\* m: Underutilized if m < 50, Overloaded if m > 100, Optimal if
\* 50 <= m <= 100, so a mean above 100 is never labelled Optimal.
C14_StatusIsBandOfMean ==
    RollupDone =>
        \A i \in WithMean :
            vehicle_summary[i].Status =
                BandOf(SeqMean(UtilOf(vehicle_summary[i].vehicle_id)))

\* the metrics that show the count of Vehicle Stats the slider feeds
UnderLabels == {"Underutilized", "Underutilized delta"}

\* the run that has ended and the run before it both ran to the end and
\* chose the same date range and the same two selections
SameChoicesTwice ==
    /\ last_run.set
    /\ pc = "done"
    /\ last_run.pc = "done"
    /\ last_run.date_range = date_range
    /\ last_run.selected_vehicle = selected_vehicle
    /\ last_run.selected_segment = selected_segment

\* C15: the threshold of the slider affects the 'Underutilized' side metric
\* only: two runs on the same files that differ at most in the threshold have
\* the same filtered table, the same rollup rows with the same Status labels,
\* the same views, and the same value of every other metric.
C15_ThresholdOnlyInUnderutilized ==
    SameChoicesTwice =>
        /\ optimized_df = last_run.optimized_df
        /\ vehicle_summary = last_run.vehicle_summary
        /\ rendered = last_run.rendered
        /\ DOMAIN metrics = DOMAIN last_run.metrics
        /\ \A l \in DOMAIN metrics \ UnderLabels :
              metrics[l] = last_run.metrics[l]

C15_Witness ==
    /\ SameChoicesTwice
    /\ util_threshold # last_run.util_threshold
    /\ vehicle_summary # <<>>
    /\ metrics["Underutilized"] # last_run.metrics["Underutilized"]

\* what a call of the loader's body returns for the files as they are
FirstResult == load_data(primary_file, aux_files).result

\* C16: with the input files unchanged, every call of the loader, in the
\* first run and in every rerun, returns the result of the first call: the
\* memo keeps that result, and the selections, the date coercion and the
\* derived column of an earlier run leave it as it was, so every run starts
\* from the primary table as it was read.
C16_LoaderResultStable ==
    /\ cache.filled => cache.result = FirstResult
    /\ pc = "check" =>
          /\ cache.filled
          /\ loaded_none = FirstResult.none
          /\ optimized_df = FirstResult.optimized_df
          /\ aux_dfs = FirstResult.aux
          /\ primary_file.state = "ok" => optimized_df = primary_file.table

\* a run starts from the loaded table after a run that made a selection,
\* coerced the dates of the table and derived a column
C16_Witness ==
    /\ pc = "check"
    /\ last_run.set
    /\ last_run.pc = "done"
    /\ last_run.selected_vehicle = "Truck"
    /\ "cost_per_util" \in last_run.optimized_df.columns
    /\ Column(last_run.optimized_df, "order_date")
          # Column(primary_file.table, "order_date")
    /\ optimized_df = primary_file.table

\* C17: a selector offers 'All' and the values present in the table it is
\* about to filter, so whatever is selected, a loaded table with rows leaves
\* a filtered table with rows: the filtered table has zero rows only if the
\* primary table has zero rows.
C17_SelectionsKeepRows ==
    AfterVehicleFilter =>
        /\ Len0(Loaded) > 0 => Len0(optimized_df) > 0
        /\ Len0(optimized_df) = 0 => Len0(primary_file.table) = 0

C17_Witness ==
    /\ pc = "slider"
    /\ selected_vehicle = "Van"
    /\ selected_segment = "Enterprise"
    /\ Len0(optimized_df) > 0
    /\ Len0(optimized_df) < Len0(Loaded)

\* the number of rollup rows whose Status label is status
Labelled(status) ==
    Cardinality({i \in DOMAIN vehicle_summary :
                    vehicle_summary[i].Status = status})

\* C18: the 'Optimal' and 'Overloaded' side metrics show the number of rollup
\* rows whose Status label is Optimal and Overloaded respectively.
C18_CountsMatchLabels ==
    (RollupDone /\ "Optimal" \in DOMAIN metrics) =>
        /\ metrics["Optimal"] = Int2Num(Labelled("Optimal"))
        /\ metrics["Overloaded"] = Int2Num(Labelled("Overloaded"))

\* the two chart sections of the Performance Metrics tab
StatusSections == {"Delivery Status Distribution", "Delivery Time Analysis"}

\* C19: every run that gets through the Performance Metrics tab has rendered
\* the 'Delivery Status Distribution' and the 'Delivery Time Analysis'
\* sections, with delivery_status present or absent, and a table without
\* delivery_status does not make the run fail in that tab.
C19_StatusSectionsRendered ==
    /\ pc = "done" => StatusSections \subseteq rendered
    /\ ~Has(optimized_df, "delivery_status") =>
          ~(pc = "failed" /\ error.at = "tab5")
====
